---- MODULE Spec2Model ----
(***************************************************************************)
(* Model of the fsm execution engine (package fsm).                        *)
(*                                                                         *)
(* The source holds the engine in evolutionary variants:                   *)
(*   - the trigger variant (unnamed/part_001, lines 1-236): GetStateMap,   *)
(*     TriggerState, checkStateExitable, Step, getTraverser,               *)
(*     performEntryAction, with the debounce variable InputTimeout;        *)
(*   - the queue variant (unnamed/part_001, lines 238-395):                *)
(*     EnqueueStateToUser, a Step that dequeues one queued state, and a    *)
(*     performEntryAction without the state-map membership test.           *)
(* Both act on the actor record (Traverser, fsm.go) kept by the Store.     *)
(*                                                                         *)
(* One actor (one UUID) is modelled.  Every exported entry point is one    *)
(* action that runs the whole call; the call's sequence of Traverser       *)
(* writes and State callbacks is recorded in last.trace, and the record    *)
(* the call started from in last.pre.                                      *)
(*                                                                         *)
(* The Store, the Traverser and the state callbacks are collaborators; in  *)
(* Spec they do not fail.  Entry(false) of a state may redirect (write     *)
(* another current-state slug); Entry(true) is a re-prompt and writes      *)
(* nothing.  The queue of the Traverser is FIFO.                           *)
(***************************************************************************)
EXTENDS Integers, Sequences, FiniteSets, TLC

VARIABLES stateMachine, stateMap, actor, now, last, conc

vars == <<stateMachine, stateMap, actor, now, last, conc>>

(***************************************************************************)
(* Bounds of the model                                                     *)
(***************************************************************************)
\* longest queue of deferred requests an actor is given
MaxQueue == 2
\* last clock value; the clock starts at StartTime
MaxTime == 4
\* depth of nested performEntryAction calls at which the goroutine stack is
\* taken to be exhausted (the runtime then kills the process)
MaxDepth == 4
\* number of Step and TriggerState calls started while calls are not serialized
MaxCalls == 3

(***************************************************************************)
(* Program constants                                                       *)
(***************************************************************************)
StartState == "start"
QueueInfoKey == "queue_info"
\* the debounce window, in clock ticks (15 minutes in the source)
InputTimeout == 1
\* time.Time{} : the zero time, long before any clock reading
ZeroTime == 0
\* first clock reading: later than ZeroTime + InputTimeout, as any real clock is
StartTime == ZeroTime + InputTimeout + 1

(***************************************************************************)
(* Values                                                                  *)
(***************************************************************************)
Ghost == "ghost"                              \* a slug no factory declares
States == {"start", "middle", "finish"}       \* slugs the machines declare
Slugs == States \cup {Ghost}
NoState == "nil"                              \* Transition returned nil / Entry wrote nothing
Intents == {"A", "B"}
Inputs == Intents \cup {"junk"}               \* "junk" classifies to no intent
NoIntent == "nil"
Payloads == {"p1", "p2"}
\* the (target slug, payload) pairs that triggers are called with
Requests == {<<"start", "p1">>, <<"finish", "p2">>, <<Ghost, "p1">>}
Platform == "web"
NoPlatform == ""
EmptyBag == [k \in {} |-> "p1"]

(***************************************************************************)
(* State machines: a StateMachine is a sequence of BuildState factories.   *)
(* A factory is modelled by the State it builds: Slug, IsExitable, the     *)
(* slug its Entry(false) writes (NoState: none) and its Transition table   *)
(* over its ValidIntents.  id tells two factories of one slug apart.       *)
(***************************************************************************)
BuildState(id, slug, exitable, redirect, trans) ==
    [id |-> id, Slug |-> slug, IsExitable |-> exitable,
     redirect |-> redirect, trans |-> trans]

ExitableMaps ==
    { [start |-> TRUE,  middle |-> FALSE, finish |-> TRUE],
      [start |-> FALSE, middle |-> TRUE,  finish |-> FALSE] }

RedirectMaps ==
    { [start |-> NoState,  middle |-> NoState,  finish |-> NoState],
      [start |-> "middle", middle |-> NoState,  finish |-> NoState],
      [start |-> "middle", middle |-> "finish", finish |-> NoState],
      [start |-> "middle", middle |-> "start",  finish |-> NoState],
      [start |-> NoState,  middle |-> Ghost,    finish |-> NoState],
      [start |-> NoState,  middle |-> NoState,  finish |-> "start"] }

\* Transition of each state over its valid intents (NoState: stay)
Transitions ==
    [start  |-> [A |-> "middle", B |-> NoState],
     middle |-> [A |-> "finish", B |-> "start"],
     finish |-> [A |-> NoState,  B |-> "middle"]]

Machine(e, r) ==
    << BuildState(1, "start",  e["start"],  r["start"],  Transitions["start"]),
       BuildState(2, "middle", e["middle"], r["middle"], Transitions["middle"]),
       BuildState(3, "finish", e["finish"], r["finish"], Transitions["finish"]) >>

\* a machine in which a second factory reports the slug "middle"
DupMachine(e, r) ==
    Append(Machine(e, r),
           BuildState(4, "middle", ~e["middle"], NoState, Transitions["middle"]))

\* the two-state machine of the spec's scenario: "start" is exitable and
\* goes to "middle" on intent A, "middle" is not exitable and goes to "start"
\* on intent B; neither entry redirects
ScenarioMachine ==
    << BuildState(1, "start",  TRUE,  NoState, [A |-> "middle"]),
       BuildState(2, "middle", FALSE, NoState, [B |-> "start"]) >>

StateMachines ==
    { Machine(e, r) : e \in ExitableMaps, r \in RedirectMaps }
    \cup
    { ScenarioMachine }
    \cup
    { DupMachine(e, r) : e \in ExitableMaps,
                         r \in {x \in RedirectMaps : x["middle"] = "finish"} }

\* GetStateMap: a later factory of a slug overwrites the earlier one
RECURSIVE GetStateMapFrom(_, _, _)
GetStateMapFrom(sm, i, acc) ==
    IF i > Len(sm) THEN acc
    ELSE GetStateMapFrom(sm, i + 1, (sm[i].Slug :> sm[i]) @@ acc)

GetStateMap(sm) == GetStateMapFrom(sm, 1, [s \in {} |-> sm[1]])

(***************************************************************************)
(* The actor record (Traverser) and the context of one call                *)
(***************************************************************************)
OK == "ok"
UnknownState == "unknown state"       \* "state (%s) does not exist"
NilCall == "panic"                    \* call of a nil BuildState: run-time panic
StackOverflow == "stack overflow"     \* goroutine stack exhausted: fatal error
StoreError == "store error"           \* a Traverser write returned an error

NoActor ==
    [exists |-> FALSE, cur |-> NoState, upd |-> ZeroTime, platform |-> NoPlatform,
     queue |-> << >>, data |-> EmptyBag]

\* a call in progress: the record as written so far, the operations done so
\* far, and the call's outcome
Ctx(a) == [a |-> a, trace |-> << >>, err |-> OK]

\* one operation of a call, with the current-state slug and the data bag as
\* they are when the operation has been done (for Entry: when it is invoked)
Event(c, ev, slug, reentry) ==
    [c EXCEPT !.trace = Append(@, [ev |-> ev, slug |-> slug, reentry |-> reentry,
                                   cur |-> c.a.cur, data |-> c.a.data])]

Fail(c, err) == [c EXCEPT !.err = err]

(***************************************************************************)
(* Store and Traverser operations (fsm.go)                                 *)
(***************************************************************************)
CreateTraverser(c) ==
    Event([c EXCEPT !.a.exists = TRUE], "CreateTraverser", NoState, FALSE)

SetCurrentState(c, slug) ==
    Event([c EXCEPT !.a.cur = slug], "SetCurrentState", slug, FALSE)

SetLastUpdateTime(c, t) ==
    Event([c EXCEPT !.a.upd = t], "SetLastUpdateTime", NoState, FALSE)

SetPlatform(c, platform) ==
    Event([c EXCEPT !.a.platform = platform], "SetPlatform", NoState, FALSE)

Upsert(c, key, value) ==
    Event([c EXCEPT !.a.data = (key :> value) @@ @], "Upsert", NoState, FALSE)

AddQueuedState(c, state, info) ==
    Event([c EXCEPT !.a.queue = Append(@, <<state, info>>)],
          "AddQueuedState", state, FALSE)

\* removes the oldest request; the caller has tested that there is one
DequeueQueuedState(c) ==
    Event([c EXCEPT !.a.queue = Tail(@)], "DequeueQueuedState", c.a.queue[1][1], FALSE)

(***************************************************************************)
(* State callbacks                                                         *)
(***************************************************************************)
\* state.Entry(isReentry): the first entry of a state may write another
\* current-state slug (a redirect)
Entry(c, state, isReentry) ==
    LET c1 == Event(c, "Entry", state.Slug, isReentry)
    IN  IF ~isReentry /\ state.redirect # NoState
        THEN SetCurrentState(c1, state.redirect)
        ELSE c1

ValidIntents(state) == DOMAIN state.trans

\* the injected InputTransformer: an input classifies to the intent of its
\* name when that intent is valid, and to no intent otherwise
InputTransformer(input, validIntents) ==
    IF input \in validIntents THEN input ELSE NoIntent

(***************************************************************************)
(* Trigger variant (unnamed/part_001, lines 1-236)                         *)
(***************************************************************************)
\* getTraverser: fetch the record, or create it in the start state
getTraverser(a, platform, t) ==
    IF a.exists
    THEN [c |-> Ctx(a), newTraverser |-> FALSE]
    ELSE [c |-> SetPlatform(SetLastUpdateTime(SetCurrentState(
                    CreateTraverser(Ctx(a)), StartState), t), platform),
          newTraverser |-> TRUE]

\* checkStateExitable reporting every declared state as exitable
checkStateExitable_AlwaysExitable(state) ==
    IF state \notin DOMAIN stateMap
    THEN [isExitable |-> FALSE, ok |-> FALSE]
    ELSE [isExitable |-> TRUE, ok |-> TRUE]

checkStateExitable(state) ==
    IF state \notin DOMAIN stateMap
    THEN [isExitable |-> FALSE, ok |-> FALSE]
    ELSE [isExitable |-> stateMap[state].IsExitable, ok |-> TRUE]

\* performEntryAction without lines 224-234: a redirect is not followed
performEntryAction_NoFollow(c, state, depth) ==
    Entry(c, state, FALSE)

RECURSIVE performEntryAction(_, _, _)
performEntryAction(c, state, depth) ==
    LET c1 == Entry(c, state, FALSE)
    IN  IF c1.a.cur # state.Slug
        THEN IF c1.a.cur \notin DOMAIN stateMap
             THEN Fail(c1, UnknownState)
             ELSE IF depth >= MaxDepth
                  THEN Fail(c1, StackOverflow)
                  ELSE performEntryAction(c1, stateMap[c1.a.cur], depth + 1)
        ELSE c1

\* lines 167-172 running entry resolution instead of the re-entry
StepTransition_NoIntentEnters(c, currentState, input, t) ==
    LET c1 == Event(c, "ValidIntents", currentState.Slug, FALSE)
        intent == InputTransformer(input, ValidIntents(currentState))
    IN  IF intent # NoIntent
        THEN LET c2 == Event(c1, "Transition", currentState.Slug, FALSE)
                 newState == currentState.trans[intent]
             IN  IF newState # NoState
                 THEN performEntryAction(
                          SetLastUpdateTime(SetCurrentState(c2, newState), t),
                          stateMap[newState], 1)
                 ELSE Entry(c2, currentState, TRUE)
        ELSE performEntryAction(c1, currentState, 1)

\* lines 161-166 stamping the last-update time when Transition returns nil
StepTransition_StayStamps(c, currentState, input, t) ==
    LET c1 == Event(c, "ValidIntents", currentState.Slug, FALSE)
        intent == InputTransformer(input, ValidIntents(currentState))
    IN  IF intent # NoIntent
        THEN LET c2 == Event(c1, "Transition", currentState.Slug, FALSE)
                 newState == currentState.trans[intent]
             IN  IF newState # NoState
                 THEN performEntryAction(
                          SetLastUpdateTime(SetCurrentState(c2, newState), t),
                          stateMap[newState], 1)
                 ELSE Entry(SetLastUpdateTime(c2, t), currentState, TRUE)
        ELSE Entry(c1, currentState, TRUE)

\* lines 149-160 running entry resolution before the last-update time is
\* stamped
StepTransition_EntryBeforeStamp(c, currentState, input, t) ==
    LET c1 == Event(c, "ValidIntents", currentState.Slug, FALSE)
        intent == InputTransformer(input, ValidIntents(currentState))
    IN  IF intent # NoIntent
        THEN LET c2 == Event(c1, "Transition", currentState.Slug, FALSE)
                 newState == currentState.trans[intent]
             IN  IF newState # NoState
                 THEN SetLastUpdateTime(
                          performEntryAction(SetCurrentState(c2, newState),
                                             stateMap[newState], 1), t)
                 ELSE Entry(c2, currentState, TRUE)
        ELSE Entry(c1, currentState, TRUE)

\* lines 144-172 of Step: classify the input and transition or re-enter
StepTransition(c, currentState, input, t) ==
    LET c1 == Event(c, "ValidIntents", currentState.Slug, FALSE)
        intent == InputTransformer(input, ValidIntents(currentState))
    IN  IF intent # NoIntent
        THEN LET c2 == Event(c1, "Transition", currentState.Slug, FALSE)
                 newState == currentState.trans[intent]
             IN  IF newState # NoState
                 THEN performEntryAction(
                          SetLastUpdateTime(SetCurrentState(c2, newState), t),
                          stateMap[newState], 1)
                 ELSE Entry(c2, currentState, TRUE)
        ELSE Entry(c1, currentState, TRUE)

\* Step without lines 137-142: a new actor's start state is not entered
Step_NoFirstEntry(a, platform, input, t) ==
    LET g == getTraverser(a, platform, t)
        c == g.c
    IN  IF c.a.cur \notin DOMAIN stateMap
        THEN Fail(c, UnknownState)
        ELSE StepTransition(c, stateMap[c.a.cur], input, t)

\* Step with the queue variant's lines 307-325: it takes a queued state
Step_TakesQueuedState(a, platform, input, t) ==
    LET g == getTraverser(a, platform, t)
        c == IF g.newTraverser \/ g.c.a.queue = << >> THEN g.c
             ELSE Upsert(SetCurrentState(DequeueQueuedState(g.c), g.c.a.queue[1][1]),
                         QueueInfoKey, g.c.a.queue[1][2])
    IN  IF c.a.cur \notin DOMAIN stateMap
        THEN Fail(c, UnknownState)
        ELSE StepTransition(c, stateMap[c.a.cur], input, t)

Step(a, platform, input, t) ==
    LET g == getTraverser(a, platform, t)
        c == g.c
    IN  IF c.a.cur \notin DOMAIN stateMap
        THEN Fail(c, UnknownState)
        ELSE LET currentState == stateMap[c.a.cur]
                 c1 == IF g.newTraverser
                       THEN performEntryAction(c, currentState, 1)
                       ELSE c
             IN  IF c1.err # OK THEN c1
                 ELSE StepTransition(c1, currentState, input, t)

\* TriggerState without the exitability guard of lines 41-50
TriggerState_NoExitGuard(a, platform, targetState, input, t) ==
    LET g == getTraverser(a, platform, t)
        c == g.c
        x == checkStateExitable(c.a.cur)
    IN  IF ~x.ok THEN Fail(c, UnknownState)
        ELSE IF c.a.upd # ZeroTime /\ ~(t > c.a.upd + InputTimeout)
             THEN AddQueuedState(c, targetState, input)
        ELSE IF targetState \notin DOMAIN stateMap THEN Fail(c, UnknownState)
        ELSE performEntryAction(
                 Upsert(SetLastUpdateTime(SetCurrentState(c, targetState), t),
                        QueueInfoKey, input),
                 stateMap[targetState], 1)

\* TriggerState with the window test of line 60 off by one tick
TriggerState_WindowOffByOne(a, platform, targetState, input, t) ==
    LET g == getTraverser(a, platform, t)
        c == g.c
        x == checkStateExitable(c.a.cur)
    IN  IF ~x.ok THEN Fail(c, UnknownState)
        ELSE IF ~x.isExitable THEN AddQueuedState(c, targetState, input)
        ELSE IF c.a.upd # ZeroTime /\ ~(t >= c.a.upd + InputTimeout)
             THEN AddQueuedState(c, targetState, input)
        ELSE IF targetState \notin DOMAIN stateMap THEN Fail(c, UnknownState)
        ELSE performEntryAction(
                 Upsert(SetLastUpdateTime(SetCurrentState(c, targetState), t),
                        QueueInfoKey, input),
                 stateMap[targetState], 1)

\* TriggerState entering the target state before the payload is stored
TriggerState_EntryBeforeUpsert(a, platform, targetState, input, t) ==
    LET g == getTraverser(a, platform, t)
        c == g.c
        x == checkStateExitable(c.a.cur)
    IN  IF ~x.ok THEN Fail(c, UnknownState)
        ELSE IF ~x.isExitable THEN AddQueuedState(c, targetState, input)
        ELSE IF c.a.upd # ZeroTime /\ ~(t > c.a.upd + InputTimeout)
             THEN AddQueuedState(c, targetState, input)
        ELSE IF targetState \notin DOMAIN stateMap THEN Fail(c, UnknownState)
        ELSE Upsert(performEntryAction(
                        SetLastUpdateTime(SetCurrentState(c, targetState), t),
                        stateMap[targetState], 1),
                    QueueInfoKey, input)

TriggerState(a, platform, targetState, input, t) ==
    LET g == getTraverser(a, platform, t)
        c == g.c
        x == checkStateExitable(c.a.cur)
    IN  IF ~x.ok THEN Fail(c, UnknownState)
        ELSE IF ~x.isExitable THEN AddQueuedState(c, targetState, input)
        ELSE IF c.a.upd # ZeroTime /\ ~(t > c.a.upd + InputTimeout)
             THEN AddQueuedState(c, targetState, input)
        ELSE IF targetState \notin DOMAIN stateMap THEN Fail(c, UnknownState)
        ELSE performEntryAction(
                 Upsert(SetLastUpdateTime(SetCurrentState(c, targetState), t),
                        QueueInfoKey, input),
                 stateMap[targetState], 1)

(***************************************************************************)
(* Queue variant (unnamed/part_001, lines 238-395)                         *)
(***************************************************************************)
\* lines 287-302 of Step and 255-269 of EnqueueStateToUser: fetch the
\* record, or create it in the start state (no last-update time is written)
fetchOrCreate(a, platform) ==
    IF a.exists
    THEN [c |-> Ctx(a), newTraverser |-> FALSE]
    ELSE [c |-> SetPlatform(SetCurrentState(CreateTraverser(Ctx(a)), StartState),
                            platform),
          newTraverser |-> TRUE]

EnqueueStateToUser(a, platform, state, input) ==
    AddQueuedState(fetchOrCreate(a, platform).c, state, input)

\* stateMap[slug](emitter, traverser) is a call of nil when slug is no key
RECURSIVE performEntryActionQueue(_, _, _)
performEntryActionQueue(c, state, depth) ==
    LET c1 == Entry(c, state, FALSE)
    IN  IF c1.a.cur # state.Slug
        THEN IF c1.a.cur \notin DOMAIN stateMap
             THEN Fail(c1, NilCall)
             ELSE IF depth >= MaxDepth
                  THEN Fail(c1, StackOverflow)
                  ELSE performEntryActionQueue(c1, stateMap[c1.a.cur], depth + 1)
        ELSE c1

\* lines 340-364 of the queue variant's Step
StepTransitionQueue(c, currentState, input) ==
    LET c1 == Event(c, "ValidIntents", currentState.Slug, FALSE)
        intent == InputTransformer(input, ValidIntents(currentState))
    IN  IF intent # NoIntent
        THEN LET c2 == Event(c1, "Transition", currentState.Slug, FALSE)
                 newState == currentState.trans[intent]
             IN  IF newState # NoState
                 THEN performEntryActionQueue(SetCurrentState(c2, newState),
                                              stateMap[newState], 1)
                 ELSE Entry(c2, currentState, TRUE)
        ELSE Entry(c1, currentState, TRUE)

\* lines 307-325 reading the oldest queued state without removing it
applyQueuedState_KeepsRequest(c) ==
    IF c.a.queue = << >> THEN c
    ELSE LET request == c.a.queue[1]
         IN  Upsert(SetCurrentState(c, request[1]), QueueInfoKey, request[2])

\* lines 307-325 with a dequeue that empties the queue
applyQueuedState_ClearsQueue(c) ==
    IF c.a.queue = << >> THEN c
    ELSE LET request == c.a.queue[1]
             c1 == DequeueQueuedState(c)
         IN  Upsert(SetCurrentState([c1 EXCEPT !.a.queue = << >>], request[1]),
                    QueueInfoKey, request[2])

\* lines 307-325: an existing actor's oldest queued state overrides its
\* current state
applyQueuedState(c) ==
    IF c.a.queue = << >> THEN c
    ELSE LET request == c.a.queue[1]
         IN  Upsert(SetCurrentState(DequeueQueuedState(c), request[1]),
                    QueueInfoKey, request[2])

StepQueue(a, platform, input) ==
    LET g == fetchOrCreate(a, platform)
        c == IF g.newTraverser THEN g.c ELSE applyQueuedState(g.c)
    IN  IF c.a.cur \notin DOMAIN stateMap
        THEN Fail(c, NilCall)
        ELSE LET currentState == stateMap[c.a.cur]
                 c1 == IF g.newTraverser
                       THEN performEntryActionQueue(c, currentState, 1)
                       ELSE c
             IN  IF c1.err # OK THEN c1
                 ELSE StepTransitionQueue(c1, currentState, input)

(***************************************************************************)
(* The state machine of the model                                          *)
(***************************************************************************)
NoCall ==
    [op |-> "none", input |-> NoIntent, target |-> NoState, clock |-> ZeroTime,
     pre |-> NoActor, trace |-> << >>, err |-> OK, fault |-> "none", scen |-> 0]

\* how far the calls made so far, the one being made included, have followed
\* the scenario on ScenarioMachine: Step for a new actor (1), Step with an
\* input of intent A (2), TriggerState to "start" (3), Step with an input of
\* intent B (4), one more Step of either variant (5); 0 when they have not
Scenario(op, input, target) ==
    IF stateMachine # ScenarioMachine THEN 0
    ELSE IF last.scen = 0 /\ last.op = "none" /\ op = "Step" /\ input = "junk" THEN 1
    ELSE IF last.scen = 1 /\ op = "Step" /\ input = "A" THEN 2
    ELSE IF last.scen = 2 /\ op = "TriggerState" /\ target = "start" THEN 3
    ELSE IF last.scen = 3 /\ op = "Step" /\ input = "B" THEN 4
    ELSE IF last.scen = 4 /\ op \in {"Step", "StepQueue"} THEN 5
    ELSE 0

Call(op, input, target, c) ==
    [op |-> op, input |-> input, target |-> target, clock |-> now,
     pre |-> actor, trace |-> c.trace, err |-> c.err, fault |-> "none",
     scen |-> Scenario(op, input, target)]

\* the calls in progress when calls for the actor are not serialized (used by
\* SpecConc only): where the Step call and the TriggerState call stand and
\* what each has read
NoCalls ==
    [pcS |-> "idle", sState |-> NoState, sDepth |-> 0,
     pcT |-> "idle", tCur |-> NoState, tTarget |-> NoState, tInput |-> "p1",
     tState |-> NoState, tDepth |-> 0,
     overlap |-> FALSE, moved |-> NoState, left |-> NoState, calls |-> 0]

Init ==
    /\ stateMachine \in StateMachines
    /\ stateMap = GetStateMap(stateMachine)
    /\ actor = NoActor
    /\ now = StartTime
    /\ last = NoCall
    /\ conc = NoCalls

\* the clock advances between calls
Tick ==
    /\ now < MaxTime
    /\ now' = now + 1
    /\ UNCHANGED <<stateMachine, stateMap, actor, last, conc>>

DoStep ==
    \E input \in Inputs :
        LET c == Step(actor, Platform, input, now)
        IN  /\ actor' = c.a
            /\ last' = Call("Step", input, NoState, c)
            /\ UNCHANGED <<stateMachine, stateMap, now, conc>>

DoTriggerState ==
    \E request \in Requests :
        LET targetState == request[1]
            input == request[2]
            c == TriggerState(actor, Platform, targetState, input, now)
        IN  /\ Len(c.a.queue) <= MaxQueue
            /\ actor' = c.a
            /\ last' = Call("TriggerState", input, targetState, c)
            /\ UNCHANGED <<stateMachine, stateMap, now, conc>>

DoStepQueue ==
    \E input \in Inputs :
        LET c == StepQueue(actor, Platform, input)
        IN  /\ actor' = c.a
            /\ last' = Call("StepQueue", input, NoState, c)
            /\ UNCHANGED <<stateMachine, stateMap, now, conc>>

DoEnqueueStateToUser ==
    \E request \in Requests :
        LET state == request[1]
            input == request[2]
            c == EnqueueStateToUser(actor, Platform, state, input)
        IN  /\ Len(c.a.queue) <= MaxQueue
            /\ actor' = c.a
            /\ last' = Call("EnqueueStateToUser", input, state, c)
            /\ UNCHANGED <<stateMachine, stateMap, now, conc>>

Next == Tick \/ DoStep \/ DoTriggerState \/ DoStepQueue \/ DoEnqueueStateToUser

Spec == Init /\ [][Next]_vars

TypeOK ==
    /\ actor.cur \in Slugs \cup {NoState}
    /\ actor.upd \in {ZeroTime} \cup (StartTime .. MaxTime)
    /\ Len(actor.queue) <= MaxQueue
    /\ now \in StartTime .. MaxTime

(***************************************************************************)
(* Vocabulary of the properties                                            *)
(***************************************************************************)
NotFound == "not found"
RedirectCycle == "redirect cycle"

Declared(slug) == slug \in DOMAIN stateMap

\* the last call started from an existing actor in a declared state
OnExisting(op) ==
    /\ last.op = op
    /\ last.pre.exists
    /\ Declared(last.pre.cur)

\* the last call appended its (target, payload) request to the queue
Enqueued == actor.queue = Append(last.pre.queue, <<last.target, last.input>>)

\* the last-update time upd is within the debounce window at clock reading t
WithinWindow(upd, t) == t <= upd + InputTimeout

\* the slugs entry resolution visits from slug, following at most n redirects
RECURSIVE RedirectChain(_, _)
RedirectChain(slug, n) ==
    IF n = 0 \/ ~Declared(slug) \/ stateMap[slug].redirect = NoState
    THEN <<slug>>
    ELSE <<slug>> \o RedirectChain(stateMap[slug].redirect, n - 1)

ChainFrom(slug) == RedirectChain(slug, Cardinality(DOMAIN stateMap))

ChainEnd(slug) == ChainFrom(slug)[Len(ChainFrom(slug))]

\* the redirect chain from slug ends in a declared state that does not redirect
ChainSettles(slug) ==
    /\ Declared(ChainEnd(slug))
    /\ stateMap[ChainEnd(slug)].redirect = NoState

(***************************************************************************)
(* C1: for an existing actor whose current state is declared non-exitable, *)
(* a TriggerState call succeeds, appends exactly its (target, payload)     *)
(* request to the queue and leaves the current-state slug unchanged.       *)
(***************************************************************************)
C1_NonExitableTriggerEnqueues ==
    (OnExisting("TriggerState") /\ ~stateMap[last.pre.cur].IsExitable)
        => /\ last.err = OK
           /\ Enqueued
           /\ actor.cur = last.pre.cur

C1_Witness ==
    /\ OnExisting("TriggerState")
    /\ ~stateMap[last.pre.cur].IsExitable
    /\ last.target # last.pre.cur
    /\ Len(actor.queue) = Len(last.pre.queue) + 1

(***************************************************************************)
(* C3 (as claimed): for an existing actor in an exitable state,            *)
(* TriggerState enqueues and keeps the slug when the last-update time is   *)
(* within the debounce window, and otherwise the slug becomes the target.  *)
(***************************************************************************)
C3_Original ==
    (OnExisting("TriggerState") /\ stateMap[last.pre.cur].IsExitable)
        => IF WithinWindow(last.pre.upd, last.clock)
           THEN Enqueued /\ actor.cur = last.pre.cur
           ELSE actor.cur = last.target

(***************************************************************************)
(* C3 (amended): for an existing actor in an exitable state, TriggerState  *)
(* enqueues and keeps the slug when the last-update time is within the     *)
(* debounce window.  Outside the window a declared target is applied at    *)
(* once: the slug is set to the target, nothing is enqueued, and entry     *)
(* resolution runs from the target, so the call ends with the slug at the  *)
(* end of the target's redirect chain (the target itself when its entry    *)
(* does not redirect); an undeclared target is refused with an             *)
(* unknown-state error and the record is left as it was.                   *)
(***************************************************************************)
C3_DebounceThenApply ==
    (OnExisting("TriggerState") /\ stateMap[last.pre.cur].IsExitable)
        => IF WithinWindow(last.pre.upd, last.clock)
           THEN last.err = OK /\ Enqueued /\ actor.cur = last.pre.cur
           ELSE IF Declared(last.target)
           THEN /\ last.trace[1].ev = "SetCurrentState"
                /\ last.trace[1].cur = last.target
                /\ actor.queue = last.pre.queue
                /\ ChainSettles(last.target)
                      => last.err = OK /\ actor.cur = ChainEnd(last.target)
           ELSE last.err = UnknownState /\ actor = last.pre

C3_Witness ==
    /\ OnExisting("TriggerState")
    /\ stateMap[last.pre.cur].IsExitable
    /\ last.pre.upd # ZeroTime
    /\ ~WithinWindow(last.pre.upd, last.clock)
    /\ Declared(last.target)
    /\ last.target # last.pre.cur
    /\ actor.cur = last.target

\* the same actor state, one tick earlier, is deferred
C3_WitnessDeferred ==
    /\ OnExisting("TriggerState")
    /\ stateMap[last.pre.cur].IsExitable
    /\ last.clock = last.pre.upd + InputTimeout
    /\ Enqueued

(***************************************************************************)
(* C4 (as claimed): TriggerState for a UUID the store does not hold        *)
(* returns a not-found error and the store still holds no record for it.   *)
(***************************************************************************)
C4_Original ==
    (last.op = "TriggerState" /\ ~last.pre.exists)
        => last.err = NotFound /\ ~actor.exists

(***************************************************************************)
(* C2 (as claimed): after TriggerState deferred a request, the next Step   *)
(* call (of either variant) dequeues that request, sets the current-state  *)
(* slug to its target and stores its payload under the reserved key,       *)
(* before the active state is computed.                                    *)
(***************************************************************************)
AppliesRequest(trace, request) ==
    \E i \in 1 .. Len(trace) - 2 :
        /\ trace[i].ev = "DequeueQueuedState"
        /\ trace[i + 1].ev = "SetCurrentState"
        /\ trace[i + 1].cur = request[1]
        /\ trace[i + 2].ev = "Upsert"
        /\ trace[i + 2].data[QueueInfoKey] = request[2]
        /\ \A j \in 1 .. i + 2 : trace[j].ev # "ValidIntents"

C2_Original ==
    [][ ( /\ OnExisting("TriggerState")
          /\ last.err = OK
          /\ Enqueued
          /\ last'.op \in {"Step", "StepQueue"} )
        => AppliesRequest(last'.trace, <<last.target, last.input>>) ]_vars

(***************************************************************************)
(* C2 (amended): a deferred request stays in the queue across Step calls   *)
(* of the trigger variant, which never reads the queue.  A Step call of    *)
(* the queue variant for an existing actor with a non-empty queue removes  *)
(* the oldest request, sets the current-state slug to its target and       *)
(* stores its payload under the reserved key, and only then computes the   *)
(* active state, which is the request's target.                            *)
(***************************************************************************)
C2_OnlyQueueVariantApplies ==
    /\ last.op = "Step"
          => /\ actor.queue = last.pre.queue
             /\ \A i \in 1 .. Len(last.trace) :
                    last.trace[i].ev # "DequeueQueuedState"
    /\ (last.op = "StepQueue" /\ last.pre.exists /\ last.pre.queue # << >>)
          => /\ actor.queue = Tail(last.pre.queue)
             /\ AppliesRequest(SubSeq(last.trace, 1, 3), last.pre.queue[1])
             /\ IF Declared(last.pre.queue[1][1])
                THEN /\ last.trace[4].ev = "ValidIntents"
                     /\ last.trace[4].slug = last.pre.queue[1][1]
                ELSE Len(last.trace) = 3 /\ last.err = NilCall

C2_Witness ==
    /\ last.op = "StepQueue"
    /\ last.pre.exists
    /\ Len(last.pre.queue) = 2
    /\ last.pre.queue[1] # last.pre.queue[2]
    /\ last.pre.queue[1][1] # last.pre.cur
    /\ Declared(last.pre.queue[1][1])
    /\ last.err = OK

(***************************************************************************)
(* C5 (as claimed): a Step call whose input classifies to no intent leaves *)
(* current-state slug and last-update time as they were before the call,   *)
(* and the only behaviour it invokes is the active state's Entry(true).    *)
(***************************************************************************)
IsBehaviour(e) == e.ev \in {"Entry", "Transition"}

IsEntry(e) == e.ev = "Entry"

Behaviours(trace) == SelectSeq(trace, IsBehaviour)

Entries(trace) == SelectSeq(trace, IsEntry)

\* the events of the last call at which the input was classified
Classified == {i \in 1 .. Len(last.trace) : last.trace[i].ev = "ValidIntents"}

\* the last call classified its input to no intent
NoIntentCall(op) ==
    /\ last.op = op
    /\ \E i \in Classified :
          InputTransformer(last.input,
                           ValidIntents(stateMap[last.trace[i].slug])) = NoIntent

OnlyReentry ==
    /\ Len(Behaviours(last.trace)) = 1
    /\ Behaviours(last.trace)[1].ev = "Entry"
    /\ Behaviours(last.trace)[1].reentry
    /\ \A i \in Classified : Behaviours(last.trace)[1].slug = last.trace[i].slug

C5_Original ==
    NoIntentCall("Step")
        => /\ actor.cur = last.pre.cur
           /\ actor.upd = last.pre.upd
           /\ OnlyReentry

(***************************************************************************)
(* C5 (amended): a Step call for an existing actor whose input classifies  *)
(* to no intent leaves current-state slug and last-update time as they     *)
(* were, and the only behaviour it invokes is the active state's           *)
(* Entry(true).  (The first call for an actor creates the record and runs  *)
(* entry resolution before it classifies the input.)                       *)
(***************************************************************************)
C5_NoIntentOnlyReenters ==
    (NoIntentCall("Step") /\ last.pre.exists)
        => /\ actor.cur = last.pre.cur
           /\ actor.upd = last.pre.upd
           /\ OnlyReentry
           /\ Behaviours(last.trace)[1].slug = last.pre.cur

C5_Witness ==
    /\ NoIntentCall("Step")
    /\ last.pre.exists
    /\ last.pre.upd # last.clock
    /\ stateMap[last.pre.cur].redirect # NoState
    /\ last.err = OK

(***************************************************************************)
(* C6: a Step call whose input classifies to an intent for which           *)
(* Transition returns no next state leaves the actor record in the same    *)
(* state, and invokes the same entry behaviour (Entry(true) of the active  *)
(* state), as a Step call from the same starting record whose input        *)
(* classifies to no intent.                                                *)
(***************************************************************************)
\* the last call classified its input to an intent and Transition returned nil
StayCall(op) ==
    /\ last.op = op
    /\ \E i \in Classified :
          LET state == stateMap[last.trace[i].slug]
          IN  /\ last.input \in ValidIntents(state)
              /\ state.trans[last.input] = NoState

C6_StayLikeNoIntent ==
    StayCall("Step")
        => LET c == Step(last.pre, Platform, "junk", last.clock)
           IN  /\ actor = c.a
               /\ last.err = c.err
               /\ Entries(last.trace) = Entries(c.trace)
               /\ Entries(last.trace)[Len(Entries(last.trace))].reentry

C6_Witness ==
    /\ StayCall("Step")
    /\ last.pre.exists
    /\ last.pre.upd # last.clock
    /\ last.err = OK

(***************************************************************************)
(* C7 (as claimed): the first Step call for an unknown UUID creates the    *)
(* actor in "start" and runs entry resolution from the start state so that *)
(* each state on the redirect chain has its entry behaviour executed       *)
(* exactly once during the call, and the call ends with the current-state  *)
(* slug equal to the chain's final, non-redirecting state.                 *)
(***************************************************************************)
Range(seq) == {seq[i] : i \in 1 .. Len(seq)}

\* the last call is a first Step call, on a machine whose redirect chain
\* from the start state ends in a non-redirecting state
FirstStep ==
    /\ last.op = "Step"
    /\ ~last.pre.exists
    /\ ChainSettles(StartState)

CreatedInStart ==
    /\ last.trace[1].ev = "CreateTraverser"
    /\ last.trace[2].ev = "SetCurrentState"
    /\ last.trace[2].cur = StartState
    /\ actor.exists

EntryCount(trace, slug) ==
    Cardinality({i \in 1 .. Len(trace) : trace[i].ev = "Entry" /\ trace[i].slug = slug})

C7_Original ==
    FirstStep
        => /\ CreatedInStart
           /\ \A slug \in Range(ChainFrom(StartState)) :
                  EntryCount(last.trace, slug) = 1
           /\ actor.cur = ChainEnd(StartState)

(***************************************************************************)
(* C7 (amended): the first Step call for an unknown UUID creates the actor *)
(* in "start" and runs entry resolution from the start state: before the   *)
(* input is classified, each state on the redirect chain has had its       *)
(* entry behaviour executed exactly once, with isReentry=false and in      *)
(* chain order, and the current-state slug is the chain's final,           *)
(* non-redirecting state.  The same call then classifies the input, so it  *)
(* goes on to invoke an Entry(true) or to take a transition; the call ends *)
(* with the slug at the chain's final state when it takes no transition.   *)
(***************************************************************************)
\* the event at which the last call classified its input
ClassifiedAt == CHOOSE i \in Classified : TRUE

\* the last call wrote the current-state slug after classifying its input
MovedAfterClassifying ==
    \E i \in ClassifiedAt + 1 .. Len(last.trace) : last.trace[i].ev = "SetCurrentState"

C7_FirstStepResolvesEntry ==
    FirstStep
        => /\ CreatedInStart
           /\ Cardinality(Classified) = 1
           /\ LET resolution == Entries(SubSeq(last.trace, 1, ClassifiedAt - 1))
                  chain == ChainFrom(StartState)
              IN  /\ Len(resolution) = Len(chain)
                  /\ \A i \in 1 .. Len(chain) :
                         resolution[i].slug = chain[i] /\ ~resolution[i].reentry
           /\ last.trace[ClassifiedAt].cur = ChainEnd(StartState)
           /\ ~MovedAfterClassifying => actor.cur = ChainEnd(StartState)

C7_Witness ==
    /\ FirstStep
    /\ Len(ChainFrom(StartState)) = 3
    /\ ~MovedAfterClassifying
    /\ last.err = OK
    /\ actor.cur = "finish"

(***************************************************************************)
(* C8 (as claimed): entry resolution over a chain of N redirects ends      *)
(* after exactly N entry invocations, each with isReentry=false, and       *)
(* leaves the current-state slug at the final state of the chain, whose    *)
(* entry does not redirect.                                                *)
(***************************************************************************)
\* the last call moved an existing actor (Step by a transition, TriggerState
\* by an immediate move) and so ended in entry resolution; the move is the
\* call's one write of the last-update time
Stamped == {i \in 1 .. Len(last.trace) : last.trace[i].ev = "SetLastUpdateTime"}

ResolutionCall ==
    /\ last.op \in {"Step", "TriggerState"}
    /\ last.pre.exists
    /\ Stamped # {}

StampedAt == CHOOSE i \in Stamped : TRUE

\* the state entry resolution started from, and the events of the resolution
ResolvedFrom == last.trace[StampedAt].cur

Resolution == SubSeq(last.trace, StampedAt + 1, Len(last.trace))

IsRedirect(e) == e.ev = "SetCurrentState"

Redirects(trace) == SelectSeq(trace, IsRedirect)

C8_Original ==
    (ResolutionCall /\ ChainSettles(ResolvedFrom))
        => /\ last.err = OK
           /\ Len(Entries(Resolution)) = Len(Redirects(Resolution))
           /\ \A i \in 1 .. Len(Entries(Resolution)) : ~Entries(Resolution)[i].reentry
           /\ actor.cur = ChainEnd(ResolvedFrom)

(***************************************************************************)
(* C8 (amended): entry resolution over a chain of N redirects ends after   *)
(* exactly N + 1 entry invocations (one for the state it starts from and   *)
(* one for each state redirected to), each with isReentry=false, and       *)
(* leaves the current-state slug at the final state of the chain, whose    *)
(* entry does not redirect.                                                *)
(***************************************************************************)
C8_ResolutionInvokesEachOnce ==
    (ResolutionCall /\ ChainSettles(ResolvedFrom))
        => /\ last.err = OK
           /\ Len(Entries(Resolution)) = Len(Redirects(Resolution)) + 1
           /\ Len(Redirects(Resolution)) = Len(ChainFrom(ResolvedFrom)) - 1
           /\ \A i \in 1 .. Len(Entries(Resolution)) :
                  /\ ~Entries(Resolution)[i].reentry
                  /\ Entries(Resolution)[i].slug = ChainFrom(ResolvedFrom)[i]
           /\ actor.cur = ChainEnd(ResolvedFrom)
           /\ stateMap[actor.cur].redirect = NoState

C8_Witness ==
    /\ ResolutionCall
    /\ ChainSettles(ResolvedFrom)
    /\ Len(Redirects(Resolution)) = 2
    /\ Len(Entries(Resolution)) = 3
    /\ actor.cur = "finish"

(***************************************************************************)
(* C9 (as claimed): when entry behaviours redirect in a cycle, entry       *)
(* resolution ends with a redirect-cycle error once the chain exceeds a    *)
(* maximum depth, instead of recursing without bound.                      *)
(***************************************************************************)
\* the redirect chain from slug stays in declared states and never ends
Cyclic(slug) == Declared(ChainEnd(slug)) /\ ~ChainSettles(slug)

C9_Original ==
    (\E i \in 1 .. Len(last.trace) :
        /\ last.trace[i].ev = "Entry"
        /\ ~last.trace[i].reentry
        /\ Cyclic(last.trace[i].slug))
        => last.err = RedirectCycle

(***************************************************************************)
(* C10 (as claimed): GetStateMap yields a map with exactly one entry per   *)
(* distinct declared slug, and a sequence of factories in which two report *)
(* the same slug is rejected rather than compiled.                         *)
(***************************************************************************)
HasDuplicateSlug(sm) ==
    \E i, j \in 1 .. Len(sm) : i < j /\ sm[i].Slug = sm[j].Slug

\* GetStateMap handed back a map for the machine
Compiled == DOMAIN stateMap # {}

C10_Original ==
    /\ DOMAIN stateMap = {stateMachine[i].Slug : i \in 1 .. Len(stateMachine)}
    /\ HasDuplicateSlug(stateMachine) => ~Compiled

(***************************************************************************)
(* C11 (as claimed): whenever the current-state slug is not a key of the   *)
(* state map - at the start of Step, at the exitability check of           *)
(* TriggerState, or after an entry behaviour redirected to it - the call   *)
(* fails with an unknown-state error that reaches the caller, and no entry *)
(* or transition behaviour is invoked after the failed lookup.             *)
(***************************************************************************)
\* the slug the last call looked up first: the queue variant's Step looks up
\* the slug it has just taken from the queue
FirstLookup ==
    IF last.op = "StepQueue" /\ last.pre.queue # << >>
    THEN last.pre.queue[1][1]
    ELSE last.pre.cur

FirstLookupFails(ops) ==
    /\ last.op \in ops
    /\ last.pre.exists
    /\ ~Declared(FirstLookup)

\* the events of the last call at which an entry behaviour had just written
\* an undeclared current-state slug
BadRedirects ==
    {i \in 2 .. Len(last.trace) :
        /\ last.trace[i].ev = "SetCurrentState"
        /\ last.trace[i - 1].ev = "Entry"
        /\ ~Declared(last.trace[i].cur)}

UnknownStateReported(ops) ==
    /\ FirstLookupFails(ops)
          => last.err = UnknownState /\ Behaviours(last.trace) = << >>
    /\ (last.op \in ops /\ BadRedirects # {})
          => last.err = UnknownState /\ BadRedirects = {Len(last.trace)}

C11_Original == UnknownStateReported({"Step", "StepQueue", "TriggerState"})

\* the trigger variant alone does report the error
C11_TriggerVariantReports == UnknownStateReported({"Step", "TriggerState"})

(***************************************************************************)
(* C12 (as claimed): on the scenario machine the calls Step(new actor),    *)
(* Step(input A), TriggerState(start), Step(input B) give the current      *)
(* states start, middle, middle (trigger enqueued), start; the queued      *)
(* trigger is still pending after the Step with input B and is dequeued    *)
(* and applied by the Step call that follows it.                           *)
(***************************************************************************)
ScenarioStates ==
    /\ last.scen = 1 => actor.cur = "start"
    /\ last.scen = 2 => actor.cur = "middle"
    /\ last.scen = 3 => /\ actor.cur = "middle"
                        /\ last.err = OK
                        /\ actor.queue = << <<last.target, last.input>> >>
    /\ last.scen = 4 => /\ actor.cur = "start"
                        /\ Len(actor.queue) = 1
                        /\ actor.queue = last.pre.queue
                        /\ actor.queue[1][1] = "start"

C12_Original ==
    /\ ScenarioStates
    /\ last.scen = 5 => /\ AppliesRequest(last.trace, last.pre.queue[1])
                        /\ actor.queue = << >>

(***************************************************************************)
(* C12 (amended): on the scenario machine the calls Step(new actor),       *)
(* Step(input A), TriggerState(start), Step(input B) give the current      *)
(* states start, middle, middle (trigger enqueued), start, and the queued  *)
(* trigger is still pending after the Step with input B.  A following Step *)
(* call of that variant leaves it pending; it is dequeued and applied      *)
(* (landing on "start" again) only when the following call is the queue    *)
(* variant's Step.                                                         *)
(***************************************************************************)
C12_ScenarioLeavesTriggerPending ==
    /\ ScenarioStates
    /\ (last.scen = 5 /\ last.op = "Step")
          => /\ actor.queue = last.pre.queue
             /\ Len(actor.queue) = 1
    /\ (last.scen = 5 /\ last.op = "StepQueue")
          => /\ AppliesRequest(last.trace, last.pre.queue[1])
             /\ actor.queue = << >>
             /\ last.trace[ClassifiedAt].cur = "start"

C12_Witness ==
    /\ last.scen = 5
    /\ last.op = "Step"
    /\ actor.queue = << <<"start", "p1">> >>

C12_WitnessQueueVariant ==
    /\ last.scen = 5
    /\ last.op = "StepQueue"
    /\ actor.cur = "start"
    /\ actor.data = (QueueInfoKey :> "p1")

(***************************************************************************)
(* C13: each queued request is consumed once: only a Step call (of the     *)
(* queue variant) removes a request, a call removes at most one, the       *)
(* request removed is the one the call applies, and it is no longer in the *)
(* queue afterwards, so no later call applies it again.                    *)
(***************************************************************************)
Dequeues == {i \in 1 .. Len(last.trace) : last.trace[i].ev = "DequeueQueuedState"}

\* the writes by which a call applies a queued request
QueueApplications ==
    {i \in 1 .. Len(last.trace) :
        /\ last.trace[i].ev = "Upsert"
        /\ last.op \in {"Step", "StepQueue", "EnqueueStateToUser"}}

IsPrefix(p, q) == Len(p) <= Len(q) /\ SubSeq(q, 1, Len(p)) = p

ConcFirstStep ==
    /\ ~actor.exists
    /\ DoStep

\* Step lines 120-148 and 161-172: fetch, read the current state, classify
\* the input; a re-entry writes nothing and ends the call
StepRead ==
    \E input \in Inputs :
        /\ actor.exists
        /\ conc.pcS = "idle"
        /\ conc.calls < MaxCalls
        /\ LET known == actor.cur \in DOMAIN stateMap
               intent == IF known
                         THEN InputTransformer(input, ValidIntents(stateMap[actor.cur]))
                         ELSE NoIntent
               newState == IF intent # NoIntent
                           THEN stateMap[actor.cur].trans[intent]
                           ELSE NoState
           IN  conc' = [conc EXCEPT
                          !.pcS = IF newState # NoState THEN "setState" ELSE "idle",
                          !.sState = newState,
                          !.calls = @ + 1,
                          !.overlap = @ \/ conc.pcT # "idle"]
        /\ last' = NoCall
        /\ UNCHANGED <<stateMachine, stateMap, actor, now>>

\* Step line 149
StepSetState ==
    /\ conc.pcS = "setState"
    /\ actor' = [actor EXCEPT !.cur = conc.sState]
    /\ conc' = [conc EXCEPT !.pcS = "stamp",
                             !.moved = IF conc.pcT \in {"window", "setState"}
                                       THEN conc.sState ELSE @]
    /\ UNCHANGED <<stateMachine, stateMap, now, last>>

\* Step line 153
StepStamp ==
    /\ conc.pcS = "stamp"
    /\ actor' = [actor EXCEPT !.upd = now]
    /\ conc' = [conc EXCEPT !.pcS = "entry", !.sDepth = 1]
    /\ UNCHANGED <<stateMachine, stateMap, now, last>>

\* performEntryAction line 212, called from Step: state.Entry(false)
StepEntry ==
    /\ conc.pcS = "entry"
    /\ actor' = IF stateMap[conc.sState].redirect # NoState
                THEN [actor EXCEPT !.cur = stateMap[conc.sState].redirect]
                ELSE actor
    /\ conc' = [conc EXCEPT !.pcS = "reread"]
    /\ UNCHANGED <<stateMachine, stateMap, now, last>>

\* performEntryAction lines 219-235, called from Step
StepReread ==
    /\ conc.pcS = "reread"
    /\ conc' = IF /\ actor.cur # conc.sState
                  /\ actor.cur \in DOMAIN stateMap
                  /\ conc.sDepth < MaxDepth
               THEN [conc EXCEPT !.pcS = "entry", !.sState = actor.cur,
                                 !.sDepth = @ + 1]
               ELSE [conc EXCEPT !.pcS = "idle", !.sState = NoState, !.sDepth = 0]
    /\ UNCHANGED <<stateMachine, stateMap, actor, now, last>>

\* the TriggerState call has returned
TriggerDone == [NoCalls EXCEPT !.pcS = conc.pcS, !.sState = conc.sState,
                               !.sDepth = conc.sDepth, !.calls = conc.calls]

\* TriggerState lines 25-42: fetch, read the current state, test exitability
TriggerRead ==
    \E request \in Requests :
        /\ actor.exists
        /\ conc.pcT = "idle"
        /\ conc.calls < MaxCalls
        /\ Len(actor.queue) < MaxQueue
        /\ LET x == checkStateExitable(actor.cur)
           IN  conc' = IF ~x.ok THEN [TriggerDone EXCEPT !.calls = @ + 1]
                       ELSE [conc EXCEPT
                               !.calls = @ + 1,
                               !.pcT = IF ~x.isExitable THEN "enqueue" ELSE "window",
                               !.tCur = actor.cur,
                               !.tTarget = request[1],
                               !.tInput = request[2],
                               !.overlap = conc.pcS # "idle"]
        /\ last' = NoCall
        /\ UNCHANGED <<stateMachine, stateMap, actor, now>>

\* TriggerState lines 43 and 62
TriggerEnqueue ==
    /\ conc.pcT = "enqueue"
    /\ Len(actor.queue) < MaxQueue
    /\ actor' = [actor EXCEPT !.queue = Append(@, <<conc.tTarget, conc.tInput>>)]
    /\ conc' = TriggerDone
    /\ UNCHANGED <<stateMachine, stateMap, now, last>>

\* TriggerState lines 52-75: read the last-update time, test the window, look
\* the target up
TriggerWindow ==
    /\ conc.pcT = "window"
    /\ conc' = IF actor.upd # ZeroTime /\ ~(now > actor.upd + InputTimeout)
               THEN [conc EXCEPT !.pcT = "enqueue"]
               ELSE IF conc.tTarget \notin DOMAIN stateMap THEN TriggerDone
               ELSE [conc EXCEPT !.pcT = "setState"]
    /\ UNCHANGED <<stateMachine, stateMap, actor, now, last>>

\* TriggerState line 78; left is the slug the write replaces
TriggerSetState ==
    /\ conc.pcT = "setState"
    /\ actor' = [actor EXCEPT !.cur = conc.tTarget]
    /\ conc' = [conc EXCEPT !.pcT = "stamp", !.left = actor.cur]
    /\ UNCHANGED <<stateMachine, stateMap, now, last>>

\* TriggerState line 83
TriggerStamp ==
    /\ conc.pcT = "stamp"
    /\ actor' = [actor EXCEPT !.upd = now]
    /\ conc' = [conc EXCEPT !.pcT = "upsert"]
    /\ UNCHANGED <<stateMachine, stateMap, now, last>>

\* TriggerState line 89
TriggerUpsert ==
    /\ conc.pcT = "upsert"
    /\ actor' = [actor EXCEPT !.data = (QueueInfoKey :> conc.tInput) @@ @]
    /\ conc' = [conc EXCEPT !.pcT = "entry", !.tState = conc.tTarget, !.tDepth = 1]
    /\ UNCHANGED <<stateMachine, stateMap, now, last>>

\* performEntryAction line 212, called from TriggerState
TriggerEntry ==
    /\ conc.pcT = "entry"
    /\ actor' = IF stateMap[conc.tState].redirect # NoState
                THEN [actor EXCEPT !.cur = stateMap[conc.tState].redirect]
                ELSE actor
    /\ conc' = [conc EXCEPT !.pcT = "reread"]
    /\ UNCHANGED <<stateMachine, stateMap, now, last>>

\* performEntryAction lines 219-235, called from TriggerState
TriggerReread ==
    /\ conc.pcT = "reread"
    /\ conc' = IF /\ actor.cur # conc.tState
                  /\ actor.cur \in DOMAIN stateMap
                  /\ conc.tDepth < MaxDepth
               THEN [conc EXCEPT !.pcT = "entry", !.tState = actor.cur,
                                 !.tDepth = @ + 1]
               ELSE TriggerDone
    /\ UNCHANGED <<stateMachine, stateMap, actor, now, last>>

NextConc ==
    \/ Tick
    \/ ConcFirstStep
    \/ StepRead \/ StepSetState \/ StepStamp \/ StepEntry \/ StepReread
    \/ TriggerRead \/ TriggerEnqueue \/ TriggerWindow \/ TriggerSetState
    \/ TriggerStamp \/ TriggerUpsert \/ TriggerEntry \/ TriggerReread

SpecConc == Init /\ [][NextConc]_vars

(***************************************************************************)
(* C14: when the calls for an actor are not serialized, there is an        *)
(* interleaving in which TriggerState reads an exitable current state,     *)
(* Step then moves the actor into a non-exitable state, and TriggerState   *)
(* then overwrites the current-state slug with its target; when the        *)
(* TriggerState call does not overlap a Step call, its write of the slug   *)
(* never replaces a non-exitable state.                                    *)
(***************************************************************************)
\* the TriggerState call in progress (or the last one) has replaced a
\* non-exitable current state by its target
LeftNonExitable ==
    /\ conc.left # NoState
    /\ Declared(conc.left)
    /\ ~stateMap[conc.left].IsExitable

C14_OnlyOverlapLeavesNonExitable == LeftNonExitable => conc.overlap

C14_Witness ==
    /\ LeftNonExitable
    /\ stateMap[conc.tCur].IsExitable
    /\ conc.moved = conc.left
    /\ conc.pcT = "stamp"
    /\ actor.cur = conc.tTarget
    /\ conc.tTarget # conc.left

(***************************************************************************)
(* C15: in a Step call whose transition returns a next state, the new      *)
(* current-state slug is persisted, then the last-update time is stamped,  *)
(* then entry resolution runs on the new state; no entry behaviour of the  *)
(* new state is invoked before both writes.                                *)
(***************************************************************************)
\* positions of the call's trace at which Transition returned a next state:
\* the next operation is the write of its slug
Moves == {i \in 1 .. Len(last.trace) - 1 :
             /\ last.trace[i].ev = "Transition"
             /\ last.trace[i + 1].ev = "SetCurrentState"}

\* the operations of the call from position i + 1 to i + n
After(i, n) == SubSeq(last.trace, i + 1, IF i + n <= Len(last.trace)
                                         THEN i + n ELSE Len(last.trace))

Evs(trace) == [k \in 1 .. Len(trace) |-> trace[k].ev]

\* slug, stamp, first entry of the state of that slug
WriteStampEnter(i) ==
    /\ Evs(After(i, 3)) = <<"SetCurrentState", "SetLastUpdateTime", "Entry">>
    /\ last.trace[i + 3].slug = last.trace[i + 1].slug
    /\ ~last.trace[i + 3].reentry
    /\ last.trace[i + 3].cur = last.trace[i + 1].slug

\* slug, first entry of the state of that slug; no stamp in the call
WriteEnter(i) ==
    /\ Evs(After(i, 2)) = <<"SetCurrentState", "Entry">>
    /\ last.trace[i + 2].slug = last.trace[i + 1].slug
    /\ ~last.trace[i + 2].reentry
    /\ \A k \in 1 .. Len(last.trace) : last.trace[k].ev # "SetLastUpdateTime"

\* C15 as stated, of the Step of both versions: slug, stamp, entry
C15_Original ==
    last.op \in {"Step", "StepQueue"} => \A i \in Moves : WriteStampEnter(i)

\* C15 amended: the Step of lines 118-175 writes the slug, stamps the time
\* and then enters the new state; the queue variant's Step writes the slug
\* and enters the new state, and stamps no time
C15_StepStampsQueueVariantDoesNot ==
    /\ last.op = "Step" => \A i \in Moves : WriteStampEnter(i)
    /\ last.op = "StepQueue" => \A i \in Moves : WriteEnter(i)

\* C15 witness: a Step call of lines 118-175 has moved the actor and stamped
\* the time of the call
C15_Witness ==
    /\ last.op = "Step"
    /\ last.err = OK
    /\ Moves # {}
    /\ last.pre.exists
    /\ actor.upd = last.clock
    /\ actor.upd # last.pre.upd

\* the queue variant's Step has moved the actor and left the time alone
C15_WitnessQueueVariant ==
    /\ last.op = "StepQueue"
    /\ last.err = OK
    /\ Moves # {}
    /\ actor.upd = last.pre.upd

(***************************************************************************)
(* C16: when TriggerState applies a move immediately, the target is looked *)
(* up before any write, and the slug is set, the time stamped and the      *)
(* payload stored before the target's entry behaviour is invoked, which    *)
(* so observes current state = target and the payload in the data bag.     *)
(***************************************************************************)
\* the TriggerState call did not enqueue its request
NotDeferred ==
    /\ last.op = "TriggerState"
    /\ \A k \in 1 .. Len(last.trace) : last.trace[k].ev # "AddQueuedState"

\* the TriggerState call wrote something and did not enqueue: it applied
AppliedNow == NotDeferred /\ last.trace # << >>

C16_AppliedWritesThenEnters ==
    /\ AppliedNow =>
          /\ Declared(last.target)
          /\ Evs(After(0, 4)) =
                 <<"SetCurrentState", "SetLastUpdateTime", "Upsert", "Entry">>
          /\ last.trace[1].slug = last.target
          /\ last.trace[4].slug = last.target
          /\ ~last.trace[4].reentry
          /\ last.trace[4].cur = last.target
          /\ QueueInfoKey \in DOMAIN last.trace[4].data
          /\ last.trace[4].data[QueueInfoKey] = last.input
    /\ (NotDeferred /\ ~Declared(last.target)) =>
          /\ last.trace = << >>
          /\ actor = last.pre

\* C16 witness: a trigger has been applied at once and replaced the payload
\* of an earlier one
C16_Witness ==
    /\ AppliedNow
    /\ last.err = OK
    /\ QueueInfoKey \in DOMAIN last.pre.data
    /\ last.pre.data[QueueInfoKey] # last.input
    /\ actor.data[QueueInfoKey] = last.input

\* a trigger naming an undeclared target has been refused
C16_WitnessRefused ==
    /\ NotDeferred
    /\ ~Declared(last.target)
    /\ last.err = UnknownState
    /\ Declared(last.pre.cur)

(***************************************************************************)
(* Calls in which a Traverser write returns an error.  A write that fails  *)
(* leaves the record as it was; Step returns at once (lines 150-156).      *)
(***************************************************************************)
\* the writes of lines 149 and 153
Faults == {"SetCurrentState", "SetLastUpdateTime"}

\* lines 149-160 restoring the old slug when the timestamp write fails
StepTransitionFault_RollsBack(c, currentState, input, t, fault) ==
    LET c1 == Event(c, "ValidIntents", currentState.Slug, FALSE)
        intent == InputTransformer(input, ValidIntents(currentState))
    IN  IF intent # NoIntent
        THEN LET c2 == Event(c1, "Transition", currentState.Slug, FALSE)
                 newState == currentState.trans[intent]
             IN  IF newState = NoState THEN Entry(c2, currentState, TRUE)
                 ELSE IF fault = "SetCurrentState" THEN Fail(c2, StoreError)
                 ELSE IF fault = "SetLastUpdateTime"
                      THEN Fail(SetCurrentState(SetCurrentState(c2, newState),
                                                c2.a.cur), StoreError)
                 ELSE performEntryAction(
                          SetLastUpdateTime(SetCurrentState(c2, newState), t),
                          stateMap[newState], 1)
        ELSE Entry(c1, currentState, TRUE)

\* lines 144-172 of Step when the write named by fault returns an error
StepTransitionFault(c, currentState, input, t, fault) ==
    LET c1 == Event(c, "ValidIntents", currentState.Slug, FALSE)
        intent == InputTransformer(input, ValidIntents(currentState))
    IN  IF intent # NoIntent
        THEN LET c2 == Event(c1, "Transition", currentState.Slug, FALSE)
                 newState == currentState.trans[intent]
             IN  IF newState = NoState THEN Entry(c2, currentState, TRUE)
                 ELSE IF fault = "SetCurrentState" THEN Fail(c2, StoreError)
                 ELSE IF fault = "SetLastUpdateTime"
                      THEN Fail(SetCurrentState(c2, newState), StoreError)
                 ELSE performEntryAction(
                          SetLastUpdateTime(SetCurrentState(c2, newState), t),
                          stateMap[newState], 1)
        ELSE Entry(c1, currentState, TRUE)

StepFault(a, platform, input, t, fault) ==
    LET g == getTraverser(a, platform, t)
        c == g.c
    IN  IF c.a.cur \notin DOMAIN stateMap
        THEN Fail(c, UnknownState)
        ELSE LET currentState == stateMap[c.a.cur]
                 c1 == IF g.newTraverser
                       THEN performEntryAction(c, currentState, 1)
                       ELSE c
             IN  IF c1.err # OK THEN c1
                 ELSE StepTransitionFault(c1, currentState, input, t, fault)

\* a Step call that reaches the write named by fault, which fails
DoStepFault ==
    \E input \in Inputs, fault \in Faults :
        LET c == StepFault(actor, Platform, input, now, fault)
        IN  /\ c.err = StoreError
            /\ actor' = c.a
            /\ last' = [Call("Step", input, NoState, c) EXCEPT !.fault = fault]
            /\ UNCHANGED <<stateMachine, stateMap, now, conc>>

NextFault == Next \/ DoStepFault

SpecFault == Init /\ [][NextFault]_vars

(***************************************************************************)
(* C17: no rollback and no retry: when in Step the write of the slug       *)
(* succeeds and the write of the last-update time fails, Step returns an   *)
(* error, the record keeps the new slug with the old timestamp, and the    *)
(* new state's entry behaviour is not invoked.                             *)
(***************************************************************************)
\* the last call was a Step whose timestamp write (line 153) failed
StampFailed == last.op = "Step" /\ last.fault = "SetLastUpdateTime"

\* the slug the call's transition wrote
MovedTo == last.trace[(CHOOSE i \in Moves : TRUE) + 1].slug

C17_PartialStateKept ==
    StampFailed =>
        /\ last.err = StoreError
        /\ Cardinality(Moves) = 1
        /\ \A i \in Moves : i + 1 = Len(last.trace)
        /\ actor.cur = MovedTo
        /\ last.pre.exists => actor = [last.pre EXCEPT !.cur = MovedTo]

\* C17 witness: the timestamp write of a Step failed at a time at which it
\* would have changed the timestamp, after the slug had been changed
C17_Witness ==
    /\ StampFailed
    /\ last.pre.exists
    /\ actor.cur # last.pre.cur
    /\ actor.upd = last.pre.upd
    /\ last.clock > last.pre.upd

(***************************************************************************)
(* C18: within a Step call, the state whose valid intents classify the     *)
(* input and whose transition function or re-entry behaviour is invoked is *)
(* the state named by the persisted current-state slug at that moment; a   *)
(* fresh actor redirected away from "start" has its input handled by the   *)
(* state it landed in.                                                      *)
(***************************************************************************)
\* the operations by which a Step call handles its input
Handles(e) == e.ev \in {"ValidIntents", "Transition"} \/ (e.ev = "Entry" /\ e.reentry)

\* every handling operation of the call is the persisted current state's
HandledByCurrent ==
    \A k \in 1 .. Len(last.trace) :
        Handles(last.trace[k]) => last.trace[k].slug = last.trace[k].cur

\* C18 as stated: violated by a Step for a new actor whose start state
\* redirects (the input is handled by "start")
C18_Original ==
    last.op \in {"Step", "StepQueue"} => HandledByCurrent

\* for an actor that exists when the call starts the input is handled by the
\* persisted current state
C18_ExistingHandledByCurrent ==
    (last.op \in {"Step", "StepQueue"} /\ last.pre.exists) => HandledByCurrent

(***************************************************************************)
(* C19: after any serialized sequence of Step and TriggerState calls on a  *)
(* machine whose transitions and entry redirects name only declared        *)
(* states, with trigger targets chosen arbitrarily, the persisted          *)
(* current-state slug is always a key of the state map.                    *)
(***************************************************************************)
\* every transition and every entry redirect of the machine names a declared
\* state
NamesOnlyDeclared ==
    \A s \in DOMAIN stateMap :
        /\ stateMap[s].redirect \in DOMAIN stateMap \cup {NoState}
        /\ \A i \in DOMAIN stateMap[s].trans :
               stateMap[s].trans[i] \in DOMAIN stateMap \cup {NoState}

\* C19 as stated: violated by the queue variant's Step taking a queued
\* request whose target is undeclared
C19_Original ==
    (NamesOnlyDeclared /\ actor.exists) => Declared(actor.cur)

\* only the queue variant's Step takes an actor out of the declared states
C19_UndeclaredOnlyByQueueVariant ==
    [][(/\ NamesOnlyDeclared
        /\ actor.exists => Declared(actor.cur)
        /\ actor'.exists
        /\ ~Declared(actor'.cur)) => last'.op = "StepQueue"]_vars

(***************************************************************************)
(* C20: a successful TriggerState call does exactly one of two things: it  *)
(* enqueues its request and leaves slug, last-update time and data bag     *)
(* unchanged, or it applies the move (slug, time, payload, entry           *)
(* resolution) and enqueues nothing; never both.                           *)
(***************************************************************************)
\* the call enqueued its request and left slug, time and data bag alone
OnlyEnqueued ==
    /\ Enqueued
    /\ actor.cur = last.pre.cur
    /\ actor.upd = last.pre.upd
    /\ actor.data = last.pre.data

\* the call applied the move and left the queue alone
OnlyApplied ==
    /\ AppliedNow
    /\ Evs(After(0, 4)) = <<"SetCurrentState", "SetLastUpdateTime", "Upsert", "Entry">>
    /\ actor.upd = last.clock
    /\ actor.data[QueueInfoKey] = last.input
    /\ actor.queue = last.pre.queue

OneOfTwo == (OnlyEnqueued \/ OnlyApplied) /\ ~(OnlyEnqueued /\ OnlyApplied)

\* C20 as stated: violated by a successful TriggerState for an unknown
\* actor, which writes slug and time and enqueues
C20_Original ==
    (last.op = "TriggerState" /\ last.err = OK) => OneOfTwo

\* for an actor that exists when the call starts, the call does one of the two
C20_ExistingOneOfTwo ==
    (last.op = "TriggerState" /\ last.err = OK /\ last.pre.exists) => OneOfTwo

====
